---- MODULE Spec2Model ----
(***************************************************************************)
(* Verification model of sports-video-indexer.                             *)
(*                                                                         *)
(* Part 1: EventDetector (processing/event_detector/event_detector.py),    *)
(* driven frame by frame as processing/yolo_main.py drives it.             *)
(*                                                                         *)
(* Representation.                                                         *)
(*   - Python None / a missing dict key / an empty list is the empty       *)
(*     tuple <<>>; a present value v of an optional field is <<v>>, a      *)
(*     position is <<x, y>>.  `not x` of the source is `x = <<>>`.         *)
(*   - tracks["players"][f] is a dict: a sequence of entries in insertion  *)
(*     (= iteration) order, with distinct ids.                             *)
(*   - Lengths are in metres and speeds in m/s, both integers; the         *)
(*     modelled positions lie on one line so that every distance is an     *)
(*     integer.  A real-valued quantity q = n/d is the pair <<n, d>>.      *)
(*   - detect_events(f) reads entries f-1 and f of the control arrays      *)
(*     only; a supplied array is the pair of those two entries.            *)
(*                                                                         *)
(* Part 2: the frame index of backend/main.py (load_embeddings,            *)
(* search_similar_frames) and the event index of                           *)
(* yolo/video_indexer/video_indexer.py (VideoIndexer).  Embeddings are     *)
(* pairs of integers; faiss is modelled by what its search returns: the    *)
(* best ids first, ties in any order, -1 in the slots it cannot fill.      *)
(* A component of a vector read from an embedding file is a record that    *)
(* says whether it is finite, NaN, +Inf or -Inf; the index stores the      *)
(* sanitized vectors before normalization and compares directions.         *)
(*                                                                         *)
(* Part 3: the build of the index from the bundles processing/processor.py *)
(* writes (sync_captions, create_embeddings), and the request handlers of  *)
(* backend/main.py (process, list_videos) after startup_event.  A handler  *)
(* is a coroutine on one event loop: it runs without interruption up to    *)
(* an await.  Files written under static/ and uploads/ are not state of    *)
(* the model.                                                              *)
(*                                                                         *)
(* Part 4: a run of processing/yolo_main.py main: one EventDetector over   *)
(* the frames in order, then EventVisualizer.draw_events over the frames   *)
(* in order; and processor.sync_captions applied to the entries of one     *)
(* video.                                                                  *)
(***************************************************************************)
EXTENDS Integers, Sequences, FiniteSets, TLC

VARIABLES
    last_possession_team,   \* EventDetector.last_possession_team
    pc,                     \* "idle" between calls, "returned" after a call
    args,                   \* the arguments of the call that returned
    ret,                    \* what that call produced
    stored_before,          \* last_possession_team when that call started
    prior_update,           \* history: an earlier call on this detector ran
                            \* _detect_possession_changes to its end
    faiss_index,            \* main.faiss_index: None or <<stored vectors>>
    frame_mapping,          \* main.frame_mapping: None or <<id -> record>>
    video_mapping,          \* main.video_mapping: None or <<set of video names>>
    vi_index,               \* VideoIndexer.index: the stored vectors
    vi_events,              \* VideoIndexer.events
    q_pc,                   \* "idle" between queries, "returned" after one
    q_args,                 \* the arguments of the query that returned
    q_ret,                  \* what that query produced
    serving,                \* startup_event has run: requests are accepted
    requests,               \* the requests in flight: None, or the handler's
                            \* position and the response it holds
    run_pc,                 \* position of a run of yolo_main.main: "none",
                            \* "detect" (first loop), "draw" (second loop),
                            \* "done" or "failed"
    tracks,                 \* main's tracks: ["players"] and ["ball"] per frame
    control,                \* main's team_ball_control and player_ball_control
    all_events,             \* main's all_events: one list per processed frame
    active_pass_events,     \* EventVisualizer.active_pass_events
    draw_ret                \* history: what the last draw_events call did

detector_vars == <<last_possession_team, pc, args, ret, stored_before, prior_update>>
index_vars == <<faiss_index, frame_mapping, video_mapping, vi_index, vi_events,
                q_pc, q_args, q_ret>>
serve_vars == <<serving, requests>>
run_vars == <<run_pc, tracks, control, all_events, active_pass_events, draw_ret>>
vars == <<detector_vars, index_vars, serve_vars, run_vars>>

None == <<>>

\* ------------------------------------------------------------------ bounds
\* Number of frames of the video: tracks and control arrays have this length.
NumFrames == 3
\* Largest k of a nearest-neighbour query.
MaxK == 3
\* Largest number of events added to one VideoIndexer.
MaxEvents == 2
\* requests the server handles at a time
NumRequests == 2

\* ------------------------------------------------------- program constants
pressure_distance_threshold == 2
pressure_speed_threshold == 5
\* 23.32, in hundredths of a metre
FieldLengthCm == 2332
\* 0.33 and 0.66, in hundredths
FirstThirdPct == 33
MiddleThirdPct == 66
\* 0.95 and 0.9, in hundredths
PassConfidence == 95
PressureConfidence == 90
PossessionConfidence == 95

\* ------------------------------------------------------------ dict helpers
\* `id in tracks['players'][f]`
HasPlayer(players, id) ==
    \E i \in 1..Len(players) : players[i].id = id

\* tracks['players'][f][id]
Player(players, id) ==
    players[CHOOSE i \in 1..Len(players) : players[i].id = id]

\* utils.measure_distance: Euclidean distance of two positions.  The square
\* root is taken exactly; the modelled positions make it an integer.
measure_distance(p1, p2) ==
    LET sq == (p1[1] - p2[1]) * (p1[1] - p2[1]) + (p1[2] - p2[2]) * (p1[2] - p2[2])
    IN  CHOOSE d \in 0..sq : d * d <= sq /\ (d + 1) * (d + 1) > sq

\* ------------------------------------------------------------ EventDetector
\* _get_field_zone: x < 23.32 * 0.33, x < 23.32 * 0.66, else.
_get_field_zone(position) ==
    IF position[1] * 10000 < FieldLengthCm * FirstThirdPct
    THEN "defensive_third"
    ELSE IF position[1] * 10000 < FieldLengthCm * MiddleThirdPct
         THEN "midfield"
         ELSE "final_third"

\* Variant: a pass that starts in the frame in which it is detected and
\* ends in the frame before.
PassEventBackwards(old_player, new_player, old_player_team, frame_num) ==
    [ kind             |-> "PassEvent",
      start_frame      |-> frame_num,
      end_frame        |-> frame_num - 1,
      description      |-> <<"Pass from Player", old_player, "to Player", new_player>>,
      players_involved |-> <<old_player, new_player>>,
      teams_involved   |-> <<old_player_team>>,
      field_zone       |-> _get_field_zone(<<0, 0>>),
      confidence       |-> PassConfidence,
      passer_id        |-> old_player,
      receiver_id      |-> new_player,
      pass_type        |-> "pass",
      pass_success     |-> TRUE ]

PassEvent(old_player, new_player, old_player_team, frame_num) ==
    [ kind             |-> "PassEvent",
      start_frame      |-> frame_num - 1,
      end_frame        |-> frame_num,
      description      |-> <<"Pass from Player", old_player, "to Player", new_player>>,
      players_involved |-> <<old_player, new_player>>,
      teams_involved   |-> <<old_player_team>>,
      field_zone       |-> _get_field_zone(<<0, 0>>),
      confidence       |-> PassConfidence,
      passer_id        |-> old_player,
      receiver_id      |-> new_player,
      pass_type        |-> "pass",
      pass_success     |-> TRUE ]

\* Variant: passer and receiver exchanged.
DetectPassesSwapped(players, frame_num, player_ball_control) ==
    LET old_player == player_ball_control[1]
        new_player == player_ball_control[2]
    IN  IF frame_num > 0 /\ new_player # old_player
        THEN IF ~HasPlayer(players, old_player) \/ ~HasPlayer(players, new_player)
             THEN <<>>
             ELSE IF Player(players, old_player).team = Player(players, new_player).team
                  THEN << PassEvent(new_player, old_player,
                                    Player(players, old_player).team, frame_num) >>
                  ELSE <<>>
        ELSE <<>>

\* Variant: the same-team test left out.
DetectPassesAnyTeam(players, frame_num, player_ball_control) ==
    LET old_player == player_ball_control[1]
        new_player == player_ball_control[2]
    IN  IF frame_num > 0 /\ new_player # old_player
        THEN IF ~HasPlayer(players, old_player) \/ ~HasPlayer(players, new_player)
             THEN <<>>
             ELSE << PassEvent(old_player, new_player,
                               Player(players, old_player).team, frame_num) >>
        ELSE <<>>

\* _detect_passes; player_ball_control is <<entry f-1, entry f>>.
_detect_passes(players, frame_num, player_ball_control) ==
    LET old_player == player_ball_control[1]
        new_player == player_ball_control[2]
    IN  IF frame_num > 0 /\ new_player # old_player
        THEN IF ~HasPlayer(players, old_player) \/ ~HasPlayer(players, new_player)
             THEN <<>>
             ELSE IF Player(players, old_player).team = Player(players, new_player).team
                  THEN << PassEvent(old_player, new_player,
                                    Player(players, old_player).team, frame_num) >>
                  ELSE <<>>
        ELSE <<>>

PressureEvent(player, other, distance, frame_num) ==
    [ kind                 |-> "PressureEvent",
      start_frame          |-> frame_num,
      end_frame            |-> frame_num,
      description          |-> <<"Player", other.id, "pressing Player", player.id>>,
      players_involved     |-> <<player.id, other.id>>,
      teams_involved       |-> <<player.team, other.team>>,
      field_zone           |-> _get_field_zone(player.position_transformed),
      confidence           |-> PressureConfidence,
      pressuring_player_id |-> other.id,
      pressured_player_id  |-> player.id,
      pressure_intensity   |-> << pressure_distance_threshold - distance,
                                  pressure_distance_threshold >> ]

\* Variant: distance <= threshold.
IsPressingDistanceInclusive(player, other) ==
    /\ other.team # player.team
    /\ other.position_transformed # None
    /\ measure_distance(player.position_transformed, other.position_transformed)
           <= pressure_distance_threshold
    /\ other.speed # None
    /\ other.speed[1] > pressure_speed_threshold

\* Variant: speed >= threshold.
IsPressingSpeedInclusive(player, other) ==
    /\ other.team # player.team
    /\ other.position_transformed # None
    /\ measure_distance(player.position_transformed, other.position_transformed)
           < pressure_distance_threshold
    /\ other.speed # None
    /\ other.speed[1] >= pressure_speed_threshold

\* The test of the inner loop of _detect_pressure for one (player, other).
IsPressing(player, other) ==
    /\ other.team # player.team
    /\ other.position_transformed # None
    /\ measure_distance(player.position_transformed, other.position_transformed)
           < pressure_distance_threshold
    /\ other.speed # None
    /\ other.speed[1] > pressure_speed_threshold

RECURSIVE PressureInner(_, _, _, _)
PressureInner(players, i, j, frame_num) ==
    IF j > Len(players)
    THEN <<>>
    ELSE (IF IsPressing(players[i], players[j])
          THEN << PressureEvent(players[i], players[j],
                     measure_distance(players[i].position_transformed,
                                      players[j].position_transformed),
                     frame_num) >>
          ELSE <<>>)
         \o PressureInner(players, i, j + 1, frame_num)

RECURSIVE PressureOuter(_, _, _)
PressureOuter(players, i, frame_num) ==
    IF i > Len(players)
    THEN <<>>
    ELSE (IF players[i].has_ball /\ players[i].position_transformed # None
          THEN PressureInner(players, i, 1, frame_num)
          ELSE <<>>)
         \o PressureOuter(players, i + 1, frame_num)

_detect_pressure(players, frame_num) ==
    PressureOuter(players, 1, frame_num)

\* The loop of _detect_possession_changes that finds the player with the
\* ball: the position of the first entry with has_ball, then break.
HolderPosition(players) ==
    IF \E i \in 1..Len(players) : players[i].has_ball
    THEN players[CHOOSE i \in 1..Len(players) :
                    /\ players[i].has_ball
                    /\ \A j \in 1..(i - 1) : ~players[j].has_ball].position_transformed
    ELSE None

\* Variant: the ball track is asked first, the player with the ball second.
BallPosBallFirst(players, ball) ==
    IF ball # <<>> /\ ball[1].position_transformed # None
    THEN ball[1].position_transformed
    ELSE HolderPosition(players)

\* ball_pos of _detect_possession_changes; ball is tracks["ball"][f]:
\* <<>> for a dict without key 1, else << tracks["ball"][f][1] >>.
BallPos(players, ball) ==
    IF HolderPosition(players) = None /\ ball # <<>>
    THEN ball[1].position_transformed
    ELSE HolderPosition(players)

PossessionChangeEvent(previous_team, current_team, ball_pos, frame_num) ==
    [ kind             |-> "PossessionChangeEvent",
      start_frame      |-> frame_num,
      end_frame        |-> frame_num,
      description      |-> <<"Possession change from Team", previous_team,
                             "to Team", current_team>>,
      players_involved |-> <<>>,
      teams_involved   |-> <<previous_team, current_team>>,
      field_zone       |-> IF ball_pos # None THEN _get_field_zone(ball_pos)
                                              ELSE "midfield",
      confidence       |-> PossessionConfidence,
      previous_team    |-> previous_team,
      new_team         |-> current_team,
      cause            |-> "interception",
      field_position   |-> IF ball_pos # None THEN ball_pos ELSE <<0, 0>> ]

\* Variant: the stored team is overwritten only when a change is reported.
DetectPossessionChangesUpdateOnChange(last, players, ball, frame_num, current_team) ==
    [ events |-> IF last # None /\ current_team # last[1]
                 THEN << PossessionChangeEvent(last[1], current_team,
                                               BallPos(players, ball), frame_num) >>
                 ELSE <<>>,
      last   |-> IF last # None /\ current_team # last[1]
                 THEN <<current_team>>
                 ELSE last ]

\* Variant: the `is not None` test left out.
DetectPossessionChangesNoNoneTest(last, players, ball, frame_num, current_team) ==
    [ events |-> IF <<current_team>> # last
                 THEN << PossessionChangeEvent(IF last = None THEN 0 ELSE last[1],
                                               current_team,
                                               BallPos(players, ball), frame_num) >>
                 ELSE <<>>,
      last   |-> <<current_team>> ]

\* Variant: a stored team is kept; only the first update stores one.
DetectPossessionChangesKeepStored(last, players, ball, frame_num, current_team) ==
    [ events |-> IF last # None /\ current_team # last[1]
                 THEN << PossessionChangeEvent(last[1], current_team,
                                               BallPos(players, ball), frame_num) >>
                 ELSE <<>>,
      last   |-> IF last = None THEN <<current_team>> ELSE last ]

\* _detect_possession_changes: the events and the new last_possession_team.
\* last is <<>> (None) or <<team>>; current_team is team_ball_control[f].
_detect_possession_changes(last, players, ball, frame_num, current_team) ==
    [ events |-> IF last # None /\ current_team # last[1]
                 THEN << PossessionChangeEvent(last[1], current_team,
                                               BallPos(players, ball), frame_num) >>
                 ELSE <<>>,
      last   |-> <<current_team>> ]

\* Variant: pressure events put before the pass events.
DetectEventsPressureFirst(last, players, ball, frame_num, team_ball_control, player_ball_control) ==
    IF frame_num >= NumFrames
    THEN [ status |-> "IndexError", events |-> <<>>, last |-> last ]
    ELSE LET passes == IF frame_num > 0 /\ player_ball_control # None
                       THEN _detect_passes(players, frame_num, player_ball_control)
                       ELSE <<>>
             pressure == _detect_pressure(players, frame_num)
             poss == IF team_ball_control # None
                     THEN _detect_possession_changes(last, players, ball, frame_num,
                                                     team_ball_control[1])
                     ELSE [ events |-> <<>>, last |-> last ]
         IN  [ status |-> "returned",
               events |-> pressure \o passes \o poss.events,
               last   |-> poss.last ]

\* detect_events.  team_ball_control is None or <<entry f>>;
\* player_ball_control is None or <<entry f-1, entry f>>.  Indexing a control
\* array or tracks["players"] at frame_num >= NumFrames raises IndexError
\* before any state is written.
detect_events(last, players, ball, frame_num, team_ball_control, player_ball_control) ==
    IF frame_num >= NumFrames
    THEN [ status |-> "IndexError", events |-> <<>>, last |-> last ]
    ELSE LET passes == IF frame_num > 0 /\ player_ball_control # None
                       THEN _detect_passes(players, frame_num, player_ball_control)
                       ELSE <<>>
             pressure == _detect_pressure(players, frame_num)
             poss == IF team_ball_control # None
                     THEN _detect_possession_changes(last, players, ball, frame_num,
                                                     team_ball_control[1])
                     ELSE [ events |-> <<>>, last |-> last ]
         IN  [ status |-> "returned",
               events |-> passes \o pressure \o poss.events,
               last   |-> poss.last ]

\* ---------------------------------------------------------- EventVisualizer
\* `0 <= progress <= 1` for progress = (frame_num - start_frame) /
\* (end_frame - start_frame) with a divisor that is not 0.
ProgressInUnit(e, frame_num) ==
    LET n == frame_num - e.start_frame
        d == e.end_frame - e.start_frame
    IN  IF d > 0 THEN 0 <= n /\ n <= d ELSE n <= 0 /\ d <= n

\* The loop over self.active_pass_events from entry i on: the passes drawn,
\* until a pass with end_frame = start_frame raises ZeroDivisionError.
RECURSIVE DrawPasses(_, _, _, _)
DrawPasses(active, i, frame_num, drawn) ==
    IF i > Len(active)
    THEN [ status |-> "returned", drawn |-> drawn ]
    ELSE IF active[i].end_frame = active[i].start_frame
         THEN [ status |-> "ZeroDivisionError", drawn |-> drawn ]
         ELSE DrawPasses(active, i + 1, frame_num,
                         IF ProgressInUnit(active[i], frame_num)
                         THEN Append(drawn, active[i])
                         ELSE drawn)

\* Variant: no pass is ever taken off the list of active passes.
DrawEventsKeepAll(active, events, frame_num) ==
    LET now == active \o SelectSeq(events, LAMBDA e : e.kind = "PassEvent")
        loop == DrawPasses(now, 1, frame_num, <<>>)
    IN  [ status             |-> loop.status,
          frame_num          |-> frame_num,
          kept               |-> active,
          active_pass_events |-> now,
          drawn              |-> loop.drawn ]

\* EventVisualizer.draw_events, the part that concerns passes: the passes
\* kept from earlier calls, the new list of active passes and the passes
\* drawn on the frame.  Banners of pressure and possession events are drawn
\* from `events` alone and leave no state.
draw_events(active, events, frame_num) ==
    LET kept == SelectSeq(active, LAMBDA e : e.end_frame >= frame_num)
        now == kept \o SelectSeq(events, LAMBDA e : e.kind = "PassEvent")
        loop == DrawPasses(now, 1, frame_num, <<>>)
    IN  [ status             |-> loop.status,
          frame_num          |-> frame_num,
          kept               |-> kept,
          active_pass_events |-> now,
          drawn              |-> loop.drawn ]

\* --------------------------------------------------------------- the index
\* Vectors are pairs of integers.  A similarity or a distance is compared
\* exactly: the cosine of two vectors by the rational sign(a.b) (a.b)^2 /
\* (|a|^2 |b|^2), which grows with it, the L2 distance by its square.
Dot(a, b) == a[1] * b[1] + a[2] * b[2]

\* Inner product of the L2-normalized vectors (faiss.normalize_L2, then
\* IndexFlatIP), as the pair <<numerator, denominator>> described above.
\* normalize_L2 leaves a zero vector as it is, so its inner products are 0.
CosineSimilarity(a, b) ==
    IF Dot(a, a) = 0 \/ Dot(b, b) = 0
    THEN << 0, 1 >>
    ELSE << (IF Dot(a, b) < 0 THEN -1 ELSE 1) * Dot(a, b) * Dot(a, b),
            Dot(a, a) * Dot(b, b) >>

\* Squared L2 distance (IndexFlatL2 reports squared distances).
L2Distance(a, b) ==
    (a[1] - b[1]) * (a[1] - b[1]) + (a[2] - b[2]) * (a[2] - b[2])

\* q1 <= q2 for two rationals with positive denominators.
RatLeq(q1, q2) == q1[1] * q2[2] <= q2[1] * q1[2]

\* The label rows faiss can return for a search of k neighbours among n
\* stored vectors (ids 0..n-1): the min(k, n) best ids, best first, in any
\* order faiss may give to equal scores, then -1 in every slot left over.
\* <<i, j>> \in better says that id i may precede id j.
FaissLabels(n, k, better) ==
    LET m == IF k < n THEN k ELSE n
    IN  { lab \in [1..k -> -1..(n - 1)] :
            /\ \A s \in 1..m : lab[s] >= 0
            /\ \A s \in (m + 1)..k : lab[s] = -1
            /\ \A s, t \in 1..m : s < t => lab[s] # lab[t]
            /\ \A s, t \in 1..m : s < t => <<lab[s], lab[t]>> \in better
            /\ \A s \in 1..m : \A j \in 0..(n - 1) :
                  (\A t \in 1..m : lab[t] # j) => <<lab[s], j>> \in better }

\* Variant: no test of faiss_index against None; an unbuilt index answers
\* like an index without vectors.
SearchSimilarFramesNoNoneTest(index, mapping, query, labels) ==
    IF index = None
    THEN [ status |-> "returned", results |-> <<>> ]
    ELSE IF \E i \in 1..Len(labels) : labels[i] \notin DOMAIN mapping[1]
         THEN [ status |-> "KeyError", results |-> <<>> ]
         ELSE [ status  |-> "returned",
                results |-> [ i \in 1..Len(labels) |->
                                [ frame_number |-> mapping[1][labels[i]].frame_number,
                                  video_name   |-> mapping[1][labels[i]].video_name,
                                  video_path   |-> mapping[1][labels[i]].video_path,
                                  similarity   |-> CosineSimilarity(query, index[1][labels[i] + 1]),
                                  rank         |-> i ] ] ]

\* search_similar_frames after faiss_index.search returned `labels`:
\* frame_mapping[idx] raises KeyError for an idx that is no key.
search_similar_frames(index, mapping, query, labels) ==
    IF index = None
    THEN [ status |-> "ValueError", results |-> <<>> ]
    ELSE IF \E i \in 1..Len(labels) : labels[i] \notin DOMAIN mapping[1]
         THEN [ status |-> "KeyError", results |-> <<>> ]
         ELSE [ status  |-> "returned",
                results |-> [ i \in 1..Len(labels) |->
                                [ frame_number |-> mapping[1][labels[i]].frame_number,
                                  video_name   |-> mapping[1][labels[i]].video_name,
                                  video_path   |-> mapping[1][labels[i]].video_path,
                                  similarity   |-> CosineSimilarity(query, index[1][labels[i] + 1]),
                                  rank         |-> i ] ] ]

\* self.events[idx] of Python: a negative idx counts from the end; the
\* 1-based position in the sequence, or 0 when idx is out of range.
PyIndex(idx, len) ==
    IF idx >= 0
    THEN (IF idx < len THEN idx + 1 ELSE 0)
    ELSE (IF len + idx >= 0 THEN len + idx + 1 ELSE 0)

\* The distance faiss reports in a slot it could not fill (FLT_MAX).
FaissNoResultDistance == 1000000

\* VideoIndexer.search after self.index.search returned `labels`: every
\* label with idx < len(self.events) yields self.events[idx].copy() with
\* similarity_score = 1 / (1 + distance).
VideoIndexer_search(vectors, events, query, labels) ==
    LET kept == SelectSeq(labels, LAMBDA l : l < Len(events))
    IN  IF \E i \in 1..Len(kept) : PyIndex(kept[i], Len(events)) = 0
        THEN [ status |-> "IndexError", results |-> <<>> ]
        ELSE [ status  |-> "returned",
               results |-> [ i \in 1..Len(kept) |->
                               [ event |-> events[PyIndex(kept[i], Len(events))],
                                 similarity_score |->
                                     << 1, 1 + (IF kept[i] >= 0
                                                THEN L2Distance(query, vectors[kept[i] + 1])
                                                ELSE FaissNoResultDistance) >> ] ] ]

\* list.sort(key=lambda x: x["start_frame"]) is stable: an element goes
\* behind every element whose key is not greater than its own.
RECURSIVE InsertByStartFrame(_, _)
InsertByStartFrame(sorted, e) ==
    IF sorted = <<>>
    THEN <<e>>
    ELSE IF Head(sorted).start_frame <= e.start_frame
         THEN <<Head(sorted)>> \o InsertByStartFrame(Tail(sorted), e)
         ELSE <<e>> \o sorted

\* Variant: an element goes in front of the elements with an equal key.
RECURSIVE InsertBeforeEqualStartFrame(_, _)
InsertBeforeEqualStartFrame(sorted, e) ==
    IF sorted = <<>>
    THEN <<e>>
    ELSE IF Head(sorted).start_frame < e.start_frame
         THEN <<Head(sorted)>> \o InsertBeforeEqualStartFrame(Tail(sorted), e)
         ELSE <<e>> \o sorted

\* Variant: a sort by start_frame that does not keep the insertion order of
\* equal keys.
RECURSIVE SortByStartFrameUnstable(_)
SortByStartFrameUnstable(events) ==
    IF events = <<>>
    THEN <<>>
    ELSE InsertBeforeEqualStartFrame(
             SortByStartFrameUnstable(SubSeq(events, 1, Len(events) - 1)),
             events[Len(events)])

RECURSIVE SortByStartFrame(_)
SortByStartFrame(events) ==
    IF events = <<>>
    THEN <<>>
    ELSE InsertByStartFrame(SortByStartFrame(SubSeq(events, 1, Len(events) - 1)),
                            events[Len(events)])

\* The slice seq[:k] of Python; a negative k counts from the end.
PySlicePrefix(seq, k) ==
    LET stop == IF k >= 0
                THEN (IF k < Len(seq) THEN k ELSE Len(seq))
                ELSE (IF Len(seq) + k > 0 THEN Len(seq) + k ELSE 0)
    IN  SubSeq(seq, 1, stop)

\* VideoIndexer.search_by_zone
search_by_zone(events, zone, k) ==
    LET matching_events == SelectSeq(events, LAMBDA event : event.field_zone = zone)
    IN  PySlicePrefix(SortByStartFrame(matching_events), k)

\* VideoIndexer.search_by_player
search_by_player(events, player_id, k) ==
    LET matching_events ==
            SelectSeq(events, LAMBDA event :
                \E i \in 1..Len(event.players_involved) :
                    event.players_involved[i] = player_id)
    IN  PySlicePrefix(SortByStartFrame(matching_events), k)

\* A component of a vector as it is read from an embedding file: a finite
\* float (an integer here), NaN, +Inf or -Inf.
Finite(value) == [ cls |-> "finite", val |-> value ]
NaN == [ cls |-> "nan", val |-> 0 ]
PosInf == [ cls |-> "posinf", val |-> 0 ]
NegInf == [ cls |-> "neginf", val |-> 0 ]

\* Variant: every component that is not finite becomes 0.
NanToNumAllZero(x) ==
    IF x.cls = "finite" THEN x.val ELSE 0

\* np.nan_to_num(embedding_vectors, nan=0.0, posinf=1.0, neginf=-1.0) on one
\* component; an array without NaN and Inf is used as it is.
nan_to_num(x) ==
    IF x.cls = "nan" THEN 0
    ELSE IF x.cls = "posinf" THEN 1
    ELSE IF x.cls = "neginf" THEN -1
    ELSE x.val

\* An entry of the list find_video_embedding_pairs returns; embeddings is
\* embedding_data['embeddings'] of the embedding file, in the order of its
\* items().
VideoPair(name, embeddings) ==
    [ video_name |-> name,
      video_file |-> <<"processing/input_videos", name, ".mp4">>,
      embeddings |-> embeddings ]

\* Variant: discovery stops at the first embedding file without a video.
RECURSIVE FindPairsStopAtMissing(_)
FindPairsStopAtMissing(embedding_files) ==
    IF embedding_files = <<>> \/ ~Head(embedding_files).video_exists
    THEN <<>>
    ELSE << VideoPair(Head(embedding_files).video_name,
                      Head(embedding_files).embeddings) >>
         \o FindPairsStopAtMissing(Tail(embedding_files))

\* find_video_embedding_pairs over the embedding files glob found, in the
\* order glob gave them: a file whose video does not exist is passed over.
find_video_embedding_pairs(embedding_files) ==
    LET found == SelectSeq(embedding_files, LAMBDA f : f.video_exists)
    IN  [ i \in 1..Len(found) |->
            VideoPair(found[i].video_name, found[i].embeddings) ]

\* The loop of load_embeddings over the matched pairs: one item per vector,
\* in the order of the pairs and, within a pair, of embeddings.items().
RECURSIVE AllEmbeddings(_)
AllEmbeddings(video_pairs) ==
    IF video_pairs = <<>>
    THEN <<>>
    ELSE LET pair == Head(video_pairs)
         IN  [ i \in 1..Len(pair.embeddings) |->
                 [ video_name   |-> pair.video_name,
                   frame_number |-> pair.embeddings[i][1],
                   video_path   |-> pair.video_file,
                   vector       |-> pair.embeddings[i][2] ] ]
             \o AllEmbeddings(Tail(video_pairs))

\* Variant: current_index starts at 1.
LoadEmbeddingsIdsFromOne(index, mapping, videos, video_pairs) ==
    LET all == AllEmbeddings(video_pairs)
        new_mapping == << [ id \in 1..Len(all) |->
                             [ video_name   |-> all[id].video_name,
                               frame_number |-> all[id].frame_number,
                               video_path   |-> all[id].video_path ] ] >>
        new_videos == << { video_pairs[i].video_name : i \in 1..Len(video_pairs) } >>
    IN  IF video_pairs = <<>>
        THEN [ faiss_index |-> index, frame_mapping |-> mapping,
               video_mapping |-> videos, result |-> FALSE ]
        ELSE IF all = <<>>
             THEN [ faiss_index |-> index, frame_mapping |-> new_mapping,
                    video_mapping |-> new_videos, result |-> FALSE ]
             ELSE [ faiss_index |-> << [ i \in 1..Len(all) |->
                                          [ j \in DOMAIN all[i].vector |->
                                              nan_to_num(all[i].vector[j]) ] ] >>,
                    frame_mapping |-> new_mapping,
                    video_mapping |-> new_videos, result |-> TRUE ]

\* load_embeddings when nothing raises: the new values of faiss_index,
\* frame_mapping and video_mapping, and the value returned.
load_embeddings(index, mapping, videos, video_pairs) ==
    LET all == AllEmbeddings(video_pairs)
        new_mapping == << [ id \in 0..(Len(all) - 1) |->
                             [ video_name   |-> all[id + 1].video_name,
                               frame_number |-> all[id + 1].frame_number,
                               video_path   |-> all[id + 1].video_path ] ] >>
        new_videos == << { video_pairs[i].video_name : i \in 1..Len(video_pairs) } >>
    IN  IF video_pairs = <<>>
        THEN [ faiss_index |-> index, frame_mapping |-> mapping,
               video_mapping |-> videos, result |-> FALSE ]
        ELSE IF all = <<>>
             THEN [ faiss_index |-> index, frame_mapping |-> new_mapping,
                    video_mapping |-> new_videos, result |-> FALSE ]
             ELSE [ faiss_index |-> << [ i \in 1..Len(all) |->
                                          [ j \in DOMAIN all[i].vector |->
                                              nan_to_num(all[i].vector[j]) ] ] >>,
                    frame_mapping |-> new_mapping,
                    video_mapping |-> new_videos, result |-> TRUE ]

\* ---------------------------------------------------------------- processor
\* A Python dict is a sequence of <<key, value>> items with distinct keys, in
\* insertion (= iteration) order; assigning to a present key keeps its place.
DictHas(d, key) == \E i \in 1..Len(d) : d[i][1] = key

DictGet(d, key) == d[CHOOSE i \in 1..Len(d) : d[i][1] = key][2]

DictSet(d, key, value) ==
    IF DictHas(d, key)
    THEN [ i \in 1..Len(d) |-> IF d[i][1] = key THEN <<key, value>> ELSE d[i] ]
    ELSE Append(d, <<key, value>>)

Abs(x) == IF x < 0 THEN -x ELSE x

\* sync_captions(yolo_data, blip_data, frame_tolerance=5)
frame_tolerance == 5

\* The captions of the BLIP entries at the positions in `taken`, in the order
\* of blip_data.
CaptionsAt(blip_data, taken) ==
    LET at == SelectSeq([ i \in 1..Len(blip_data) |-> i ], LAMBDA i : i \in taken)
    IN  [ n \in 1..Len(at) |-> blip_data[at[n]].caption ]

\* The first loop of sync_captions: every YOLO entry takes the unused BLIP
\* entries within the tolerance and is stored under its frame number.
RECURSIVE SyncYolo(_, _, _, _, _)
SyncYolo(yolo_data, blip_data, tolerance, synced_captions, used_blip_indices) ==
    IF yolo_data = <<>>
    THEN [ synced_captions |-> synced_captions,
           used_blip_indices |-> used_blip_indices ]
    ELSE LET yolo_entry == Head(yolo_data)
             taken == { i \in 1..Len(blip_data) :
                          /\ i \notin used_blip_indices
                          /\ Abs(blip_data[i].frame_num - yolo_entry.frame_num)
                                <= tolerance }
             caption_list == <<yolo_entry.caption>> \o CaptionsAt(blip_data, taken)
         IN  SyncYolo(Tail(yolo_data), blip_data, tolerance,
                      DictSet(synced_captions, yolo_entry.frame_num, caption_list),
                      used_blip_indices \cup taken)

\* The second loop of sync_captions: the BLIP entries no YOLO entry took.
RECURSIVE SyncRemaining(_, _, _, _)
SyncRemaining(blip_data, i, synced_captions, used_blip_indices) ==
    IF i > Len(blip_data)
    THEN synced_captions
    ELSE IF i \in used_blip_indices
         THEN SyncRemaining(blip_data, i + 1, synced_captions, used_blip_indices)
         ELSE LET blip_entry == blip_data[i]
                  captions ==
                      IF DictHas(synced_captions, blip_entry.frame_num)
                      THEN Append(DictGet(synced_captions, blip_entry.frame_num),
                                  blip_entry.caption)
                      ELSE <<blip_entry.caption>>
              IN  SyncRemaining(blip_data, i + 1,
                                DictSet(synced_captions, blip_entry.frame_num, captions),
                                used_blip_indices)

sync_captions(yolo_data, blip_data, tolerance) ==
    LET first == SyncYolo(yolo_data, blip_data, tolerance, <<>>, {})
    IN  SyncRemaining(blip_data, 1, first.synced_captions, first.used_blip_indices)

\* SentenceTransformer.encode of one caption: the sentence model is a fixed
\* function from captions to vectors.
encode(caption) ==
    IF caption = "pass" THEN <<1, 0>> ELSE <<0, 1>>

RECURSIVE VectorSum(_)
VectorSum(vectors) ==
    IF vectors = <<>>
    THEN <<0, 0>>
    ELSE << Head(vectors)[1] + VectorSum(Tail(vectors))[1],
            Head(vectors)[2] + VectorSum(Tail(vectors))[2] >>

\* create_embeddings: one vector per frame of synced_captions, in the order
\* of its items().  Several captions give the normalized mean of their
\* vectors, which has the direction of their sum; the index normalizes every
\* vector again, so the sum stands for it.
create_embeddings(synced_captions) ==
    LET kept == SelectSeq(synced_captions, LAMBDA item : item[2] # <<>>)
    IN  [ i \in 1..Len(kept) |->
            << kept[i][1],
               IF Len(kept[i][2]) > 1
               THEN VectorSum([ n \in 1..Len(kept[i][2]) |-> encode(kept[i][2][n]) ])
               ELSE encode(kept[i][2][1]) >> ]

\* ------------------------------------------------------ the /process handler
\* A file name f"{video_name}_{kind}_{i}..." is the tuple <<video_name, kind,
\* i>>; the empty string of a placeholder is the empty tuple.
EmptyPlaceholder == <<>>

\* The loop of generate_video_assets from the i-th search result on.
\* outcomes[i] tells how the extractions of item i end: each of thumbnail,
\* preview and video is "ok" (returned True), "false" (returned False) or
\* "raise" (raised an exception).
RECURSIVE GenerateAssetsFrom(_, _, _, _, _, _)
GenerateAssetsFrom(search_results, outcomes, i, thumbnails, previews, videos) ==
    IF i > Len(search_results)
    THEN [ thumbnails |-> thumbnails, previews |-> previews, videos |-> videos ]
    ELSE LET video_name == search_results[i].video_name
             outcome == outcomes[i]
             Raised(t, p, v) ==
                 GenerateAssetsFrom(search_results, outcomes, i + 1,
                                    Append(t, EmptyPlaceholder),
                                    Append(p, EmptyPlaceholder),
                                    Append(v, EmptyPlaceholder))
             with_thumbnail == Append(thumbnails, <<video_name, "thumbnail", i>>)
             with_preview ==
                 Append(previews, IF outcome.preview = "ok"
                                  THEN <<video_name, "preview", i>>
                                  ELSE EmptyPlaceholder)
             with_video ==
                 Append(videos, IF outcome.video = "ok"
                                THEN <<video_name, "video", i>>
                                ELSE EmptyPlaceholder)
         IN  IF outcome.thumbnail = "raise"
             THEN Raised(thumbnails, previews, videos)
             ELSE IF outcome.thumbnail = "false"
             THEN GenerateAssetsFrom(search_results, outcomes, i + 1,
                                     thumbnails, previews, videos)
             ELSE IF outcome.preview = "raise"
             THEN Raised(with_thumbnail, previews, videos)
             ELSE IF outcome.video = "raise"
             THEN Raised(with_thumbnail, with_preview, videos)
             ELSE GenerateAssetsFrom(search_results, outcomes, i + 1,
                                     with_thumbnail, with_preview, with_video)

generate_video_assets(search_results, outcomes) ==
    GenerateAssetsFrom(search_results, outcomes, 1, <<>>, <<>>, <<>>)

\* search_similar_frames(query, top_k=3) in process
process_top_k == 3

\* The fallback body of process: three mock names per list and the error.
MockResponse(error) ==
    [ thumbnails |-> << <<"mock", "thumbnail", 1>>, <<"mock", "thumbnail", 2>>,
                        <<"mock", "thumbnail", 3>> >>,
      previews   |-> << <<"mock", "preview", 1>>, <<"mock", "preview", 2>>,
                        <<"mock", "preview", 3>> >>,
      videos     |-> << <<"mock", "video", 1>>, <<"mock", "video", 2>>,
                        <<"mock", "video", 3>> >>,
      search_results |-> None,
      error      |-> <<error>> ]

\* Variant: the handler drops the index when the search raises.
ProcessDropsIndexOnError(index, mapping, videos, query, labels, outcomes, upload) ==
    LET search == search_similar_frames(index, mapping, query, labels)
        assets == generate_video_assets(search.results, outcomes)
    IN  IF search.status # "returned"
        THEN [ faiss_index |-> None, frame_mapping |-> None,
               video_mapping |-> videos,
               at |-> "responded", response |-> MockResponse(search.status) ]
        ELSE [ faiss_index |-> index, frame_mapping |-> mapping,
               video_mapping |-> videos,
               at |-> IF upload THEN "await_file_read" ELSE "responded",
               response |-> [ thumbnails |-> assets.thumbnails,
                              previews   |-> assets.previews,
                              videos     |-> assets.videos,
                              search_results |-> search.results,
                              error      |-> None ] ]

\* process up to its await (file.read() of an upload) or to its response:
\* the globals it leaves, where it stands and the body it holds.  `upload`
\* says that a file came with the request and use_demo is false.
process(index, mapping, videos, query, labels, outcomes, upload) ==
    LET search == search_similar_frames(index, mapping, query, labels)
        assets == generate_video_assets(search.results, outcomes)
    IN  IF search.status # "returned"
        THEN [ faiss_index |-> index, frame_mapping |-> mapping,
               video_mapping |-> videos,
               at |-> "responded", response |-> MockResponse(search.status) ]
        ELSE [ faiss_index |-> index, frame_mapping |-> mapping,
               video_mapping |-> videos,
               at |-> IF upload THEN "await_file_read" ELSE "responded",
               response |-> [ thumbnails |-> assets.thumbnails,
                              previews   |-> assets.previews,
                              videos     |-> assets.videos,
                              search_results |-> search.results,
                              error      |-> None ] ]

\* ------------------------------------------------------- inputs of the calls
Frames == 0..NumFrames
Teams == {1, 2}
\* Entries of player_ball_control: a player id, or -1 for "nobody yet".
ControlIds == {-1, 1, 2}

TeamControlArgs == {None} \cup { <<t>> : t \in Teams }
PlayerControlArgs == {None} \cup (ControlIds \X ControlIds)

\* tracks["ball"][f]: {}, {1: {...}} without a position, {1: {...}} with one.
BallEntries ==
    { <<>>,
      << [position_transformed |-> None] >>,
      << [position_transformed |-> <<10, 0>>] >> }

PlayerEntries(id, positions, speeds) ==
    [ id : {id}, team : Teams, has_ball : BOOLEAN,
      position_transformed : positions, speed : speeds ]

\* tracks["players"][f] for the whole detector: no, one or two tracked players
\* with or without a position, and three players standing on one spot of
\* whom the second may have the ball.
PlayerFrames ==
    LET P1 == PlayerEntries(1, {None, <<0, 0>>}, {<<6>>})
        P2 == PlayerEntries(2, {None, <<20, 0>>}, {<<6>>})
        Q(id) == PlayerEntries(id, {<<0, 0>>}, {<<6>>})
    IN  {<<>>}
        \cup { <<a>> : a \in P1 \cup P2 }
        \cup { <<a, b>> : a \in P1, b \in P2 }
        \cup { <<a, b, c>> : a \in { q \in Q(1) : ~q.has_ball }, b \in Q(2),
                              c \in { q \in Q(3) : ~q.has_ball } }

\* tracks["players"][f] for pressure detection: two players anywhere on a
\* line, one metre apart or less, two metres apart, or without a position,
\* with no speed, the threshold speed or more.
PressureFrames ==
    LET Pos == {None, <<0, 0>>, <<1, 0>>, <<2, 0>>}
        Spd == {None, <<5>>, <<6>>}
    IN  { <<a>> : a \in PlayerEntries(1, Pos, Spd) }
        \cup { <<a, b>> : a \in PlayerEntries(1, Pos, Spd),
                          b \in PlayerEntries(2, Pos, Spd) }

\* ------------------------------------------------------------------ actions
\* EventDetector.__init__
Init ==
    /\ last_possession_team = None
    /\ pc = "idle"
    /\ args = None
    /\ ret = None
    /\ stored_before = None
    /\ prior_update = FALSE
    /\ faiss_index = None
    /\ frame_mapping = None
    /\ video_mapping = None
    /\ vi_index = <<>>
    /\ vi_events = <<>>
    /\ q_pc = "idle"
    /\ q_args = None
    /\ q_ret = None
    /\ serving = FALSE
    /\ requests = [ r \in 1..NumRequests |-> None ]
    /\ run_pc = "none"
    /\ tracks = None
    /\ control = None
    /\ all_events = <<>>
    /\ active_pass_events = <<>>
    /\ draw_ret = None

\* One call of detect_events on the detector, as in the frame loop of
\* yolo_main.main, with arguments drawn from the given sets.
Call(FS, PS, BS, TS, CS) ==
    /\ pc = "idle"
    /\ \E f \in FS, players \in PS, ball \in BS, tbc \in TS, pbc \in CS :
          LET r == detect_events(last_possession_team, players, ball, f, tbc, pbc)
          IN  /\ args' = [ frame_num |-> f, players |-> players, ball |-> ball,
                           team_ball_control |-> tbc, player_ball_control |-> pbc ]
              /\ ret' = [ status |-> r.status, events |-> r.events ]
              /\ last_possession_team' = r.last
              /\ stored_before' = last_possession_team
    /\ pc' = "returned"
    /\ UNCHANGED <<prior_update, index_vars, serve_vars, run_vars>>

DetectEvents ==
    Call(Frames, PlayerFrames, BallEntries, TeamControlArgs, PlayerControlArgs)

DetectPressureOnly ==
    Call(Frames, PressureFrames, {<<>>}, TeamControlArgs, {None})

\* The caller takes the returned list (all_events.append(events)) or sees the
\* exception; the detector keeps its state for the next call.
Consume ==
    /\ pc = "returned"
    /\ pc' = "idle"
    /\ args' = None
    /\ ret' = None
    /\ stored_before' = None
    /\ prior_update' = (prior_update \/ (ret.status = "returned"
                                          /\ args.team_ball_control # None))
    /\ UNCHANGED <<last_possession_team, index_vars, serve_vars, run_vars>>

\* A new processing run constructs a new EventDetector (main, line 84).
NewDetector ==
    /\ pc = "idle"
    /\ last_possession_team' = None
    /\ prior_update' = FALSE
    /\ UNCHANGED <<pc, args, ret, stored_before, index_vars, serve_vars, run_vars>>

Next ==
    \/ DetectEvents
    \/ Consume
    \/ NewDetector

Spec == Init /\ [][Next]_vars

NextPressure ==
    \/ DetectPressureOnly
    \/ Consume
    \/ NewDetector

SpecPressure == Init /\ [][NextPressure]_vars

\* ------------------------------------------------------ a run of yolo_main
\* tracks["players"][f] of a run: players 1 and 2 of one team, or player 1
\* alone.
RunPlayerFrames ==
    LET P(id) == [ id |-> id, team |-> 1, has_ball |-> FALSE,
                   position_transformed |-> <<0, 0>>, speed |-> <<6>> ]
    IN  { <<P(1), P(2)>>, <<P(1)>> }

\* tracks["ball"][f] of a run: the interpolated ball, with a position.
RunBall == << [position_transformed |-> <<10, 0>>] >>

\* Variant: a detector that starts with team 1 stored.
EventDetectorInitTeamOne == <<1>>

\* EventDetector.__init__: last_possession_team of a new detector.
EventDetectorInit == None

\* main up to the first loop: tracks and the control arrays are computed,
\* one EventDetector and one EventVisualizer are constructed.
StartRun ==
    /\ run_pc = "none"
    /\ pc = "idle"
    /\ \E players \in [1..NumFrames -> RunPlayerFrames],
          team \in [1..NumFrames -> Teams],
          player \in [1..NumFrames -> ControlIds] :
          /\ tracks' = [ players |-> players,
                         ball |-> [ f \in 1..NumFrames |-> RunBall ] ]
          /\ control' = [ team_ball_control |-> team,
                          player_ball_control |-> player ]
    /\ last_possession_team' = EventDetectorInit
    /\ prior_update' = FALSE
    /\ all_events' = <<>>
    /\ active_pass_events' = <<>>
    /\ draw_ret' = None
    /\ run_pc' = "detect"
    /\ UNCHANGED <<pc, args, ret, stored_before, index_vars, serve_vars>>

\* One turn of `for frame_num in range(len(video_frames))`: detect_events
\* for the next frame, appended to all_events.  An exception ends main.
DetectFrame ==
    /\ run_pc = "detect"
    /\ LET frame_num == Len(all_events)
           before == IF frame_num = 0 THEN NumFrames ELSE frame_num
           r == detect_events(last_possession_team,
                              tracks.players[frame_num + 1],
                              tracks.ball[frame_num + 1],
                              frame_num,
                              << control.team_ball_control[frame_num + 1] >>,
                              << control.player_ball_control[before],
                                 control.player_ball_control[frame_num + 1] >>)
       IN  /\ last_possession_team' = r.last
           /\ IF r.status = "returned"
              THEN /\ all_events' = Append(all_events, r.events)
                   /\ run_pc' = IF frame_num + 1 = NumFrames THEN "draw" ELSE "detect"
              ELSE /\ all_events' = all_events
                   /\ run_pc' = "failed"
    /\ UNCHANGED <<pc, args, ret, stored_before, prior_update, tracks, control,
                   active_pass_events, draw_ret, index_vars, serve_vars>>

\* One turn of `for frame_num in range(len(output_video_frames))`:
\* draw_events with the events of the next frame.
DrawFrame ==
    /\ run_pc = "draw"
    /\ LET frame_num == IF draw_ret = None THEN 0 ELSE draw_ret.frame_num + 1
           r == draw_events(active_pass_events, all_events[frame_num + 1], frame_num)
       IN  /\ active_pass_events' = r.active_pass_events
           /\ draw_ret' = r
           /\ run_pc' = IF r.status # "returned" THEN "failed"
                        ELSE IF frame_num + 1 = NumFrames THEN "done" ELSE "draw"
    /\ UNCHANGED <<detector_vars, tracks, control, all_events, index_vars, serve_vars>>

NextRun ==
    \/ StartRun
    \/ DetectFrame
    \/ DrawFrame

SpecRun == Init /\ [][NextRun]_vars

\* ---------------------------------------------------- processor.sync_captions
\* yolo_data: the entries yolo_main returns, one per detected event, so that
\* a frame with two events gives two entries with one frame_num.
SyncYoloData ==
    LET Y == [ frame_num : {2, 7, 12}, caption : {"pass", "pressure"} ]
    IN  {<<>>} \cup { <<a>> : a \in Y } \cup { <<a, b>> : a \in Y, b \in Y }

\* blip_data: blip main captions every fifth frame from frame 0 on.
SyncBlipData ==
    LET C == {"save", "shot"}
        B(f, c) == [ frame_num |-> f, caption |-> c ]
    IN  {<<>>}
        \cup { <<B(0, a)>> : a \in C }
        \cup { <<B(0, a), B(5, b)>> : a \in C, b \in C }
        \cup { <<B(0, a), B(5, b), B(10, c)>> : a \in C, b \in C, c \in C }

\* process_videos: sync_captions(yolo_data, blip_data) for one video.
SyncCaptions ==
    /\ q_pc = "idle"
    /\ \E yolo_data \in SyncYoloData, blip_data \in SyncBlipData :
          /\ q_args' = [ op |-> "sync_captions",
                         yolo_data |-> yolo_data, blip_data |-> blip_data ]
          /\ q_ret' = [ status |-> "returned",
                        result |-> sync_captions(yolo_data, blip_data, frame_tolerance) ]
    /\ q_pc' = "returned"
    /\ UNCHANGED <<faiss_index, frame_mapping, video_mapping, vi_index, vi_events,
                   detector_vars, run_vars, serve_vars>>

\* ------------------------------------------------- the index and its queries
Vectors == { <<1, 0>>, <<0, 1>> }

\* A vector of finite floats as it is stored in an embedding file.
FloatVector(v) == [ j \in DOMAIN v |-> Finite(v[j]) ]

\* embedding_data['embeddings'] of one bundle: frame number -> vector.
Bundles ==
    {<<>>}
    \cup { << <<0, FloatVector(v)>> >> : v \in Vectors }
    \cup { << <<0, FloatVector(v)>>, <<1, FloatVector(w)>> >> :
               v \in Vectors, w \in Vectors }

\* An embedding file <video_name>_embeddings_512.pkl in processing/embeddings
\* and whether <video_name>.mp4 exists in processing/input_videos.
EmbeddingFile(name, embeddings, video_exists) ==
    [ video_name |-> name, embeddings |-> embeddings, video_exists |-> video_exists ]

\* The embedding files on disk, every one with its video.
PairedFileLists ==
    {<<>>}
    \cup { << EmbeddingFile("a", e, TRUE) >> : e \in Bundles }
    \cup { << EmbeddingFile("a", e, TRUE), EmbeddingFile("b", g, TRUE) >> :
               e \in Bundles, g \in { b \in Bundles : Len(b) <= 1 } }

\* One call of load_embeddings (startup_event) with the given files on disk.
Load(FLS) ==
    /\ q_pc = "idle"
    /\ \E embedding_files \in FLS :
          LET r == load_embeddings(faiss_index, frame_mapping, video_mapping,
                                   find_video_embedding_pairs(embedding_files))
          IN  /\ faiss_index' = r.faiss_index
              /\ frame_mapping' = r.frame_mapping
              /\ video_mapping' = r.video_mapping
              /\ q_args' = [ op |-> "load_embeddings",
                             embedding_files |-> embedding_files ]
              /\ q_ret' = [ status |-> "returned", result |-> r.result ]
    /\ q_pc' = "returned"
    /\ UNCHANGED <<vi_index, vi_events, detector_vars, run_vars>>

LoadEmbeddings ==
    /\ Load(PairedFileLists)
    /\ UNCHANGED serve_vars

\* What faiss_index.search(query_embedding, top_k) may return; the search is
\* not reached when faiss_index is None.
IndexLabels(index, query, top_k) ==
    IF index = None
    THEN {<<>>}
    ELSE FaissLabels(Len(index[1]), top_k,
             { p \in (0..(Len(index[1]) - 1)) \X (0..(Len(index[1]) - 1)) :
                 RatLeq(CosineSimilarity(query, index[1][p[2] + 1]),
                        CosineSimilarity(query, index[1][p[1] + 1])) })

\* A query of the /process handler: search_similar_frames(query, top_k).
SearchSimilarFrames ==
    /\ q_pc = "idle"
    /\ \E query \in Vectors, top_k \in 1..MaxK :
          \E labels \in IndexLabels(faiss_index, query, top_k) :
             /\ q_args' = [ op |-> "search_similar_frames", query |-> query, k |-> top_k ]
             /\ q_ret' = search_similar_frames(faiss_index, frame_mapping, query, labels)
    /\ q_pc' = "returned"
    /\ UNCHANGED <<faiss_index, frame_mapping, video_mapping, vi_index, vi_events,
                   detector_vars, run_vars, serve_vars>>

\* Event metadata kept by VideoIndexer.add_event; events are added in the
\* order of their frames.
IndexedEvent(start_frame) ==
    [ start_frame |-> start_frame, field_zone |-> "midfield",
      players_involved |-> <<1, 2>> ]

\* VideoIndexer.add_event: encode_event returns one row per frame of the
\* event (the text embedding is broadcast over the frame embeddings), all of
\* them are added to the index, and the event is appended once.
AddEventOf(ES, RS) ==
    /\ q_pc = "idle"
    /\ Len(vi_events) < MaxEvents
    /\ \E event \in ES, rows \in RS :
          /\ vi_index' = vi_index \o rows
          /\ vi_events' = Append(vi_events, event)
    /\ UNCHANGED <<faiss_index, frame_mapping, video_mapping, q_pc, q_args, q_ret,
                   detector_vars, run_vars, serve_vars>>

AddEvent ==
    AddEventOf({ IndexedEvent(Len(vi_events)) },
               { <<v>> : v \in Vectors } \cup { << <<1, 0>>, <<0, 1>> >> })

\* VideoIndexer.search(query, k).
VideoIndexerSearch ==
    /\ q_pc = "idle"
    /\ \E query \in Vectors, k \in 1..MaxK :
          \E labels \in FaissLabels(Len(vi_index), k,
                             { p \in (0..(Len(vi_index) - 1)) \X (0..(Len(vi_index) - 1)) :
                                 L2Distance(query, vi_index[p[1] + 1])
                                    <= L2Distance(query, vi_index[p[2] + 1]) }) :
             /\ q_args' = [ op |-> "VideoIndexer.search", query |-> query, k |-> k ]
             /\ q_ret' = VideoIndexer_search(vi_index, vi_events, query, labels)
    /\ q_pc' = "returned"
    /\ UNCHANGED <<faiss_index, frame_mapping, video_mapping, vi_index, vi_events,
                   detector_vars, run_vars, serve_vars>>

\* The caller takes the result of the query, or handles its exception.
QueryDone ==
    /\ q_pc = "returned"
    /\ q_pc' = "idle"
    /\ q_args' = None
    /\ q_ret' = None
    /\ UNCHANGED <<faiss_index, frame_mapping, video_mapping, vi_index, vi_events,
                   detector_vars, run_vars, serve_vars>>

NextSync ==
    \/ SyncCaptions
    \/ QueryDone

SpecSync == Init /\ [][NextSync]_vars

NextSearch ==
    \/ LoadEmbeddings
    \/ SearchSimilarFrames
    \/ AddEvent
    \/ VideoIndexerSearch
    \/ QueryDone

SpecSearch == Init /\ [][NextSearch]_vars

\* ------------------------------------------- the build from processed videos
\* yolo_main returns its entries by ascending frame number, several for a
\* frame with several events.
YoloData ==
    LET Y(f) == [ frame_num |-> f, caption |-> "pass" ]
    IN  { <<>>, <<Y(2)>>, <<Y(7)>>, <<Y(2), Y(7)>>, <<Y(7), Y(7)>> }

\* blip main captions every fifth frame from frame 0 on.
BlipData ==
    LET B(f) == [ frame_num |-> f, caption |-> "save" ]
    IN  { <<>>, <<B(0)>>, <<B(0), B(5)>>, <<B(0), B(5), B(10)>> }

\* process_videos: the 512 bundle save_embeddings writes for one video.
ProcessorBundles ==
    { LET embeddings == create_embeddings(sync_captions(y, b, frame_tolerance))
      IN  [ i \in 1..Len(embeddings) |->
              << embeddings[i][1], FloatVector(embeddings[i][2]) >> ] :
        y \in YoloData, b \in BlipData }

\* Bundles with components that are not finite.
MalformedBundles ==
    { << <<0, <<NaN, Finite(1)>> >> >>,
      << <<0, <<PosInf, NegInf>> >>, <<5, <<Finite(2), NaN>> >> >>,
      << <<0, <<NaN, NaN>> >> >> }

DiskBundles == ProcessorBundles \cup MalformedBundles

\* The embedding files on disk, with or without their videos.
DiskFileLists ==
    {<<>>}
    \cup { << EmbeddingFile("a", e, x) >> : e \in DiskBundles, x \in BOOLEAN }
    \cup { << EmbeddingFile("a", e, x), EmbeddingFile("b", g, y) >> :
               e \in DiskBundles, x \in BOOLEAN,
               g \in MalformedBundles \cup { << <<0, FloatVector(<<1, 0>>)>> >> },
               y \in BOOLEAN }

BuildIndex ==
    /\ Load(DiskFileLists)
    /\ UNCHANGED serve_vars

NextBuild ==
    \/ BuildIndex
    \/ QueryDone

SpecBuild == Init /\ [][NextBuild]_vars

\* ------------------------------------------------------------------ serving
\* The embedding files on disk at startup: none; one video with one frame;
\* two videos with three frames, two of them with the same vector.
StartupFileLists ==
    { <<>>,
      << EmbeddingFile("a", << <<0, FloatVector(<<1, 0>>)>> >>, TRUE) >>,
      << EmbeddingFile("a", << <<0, FloatVector(<<1, 0>>)>>,
                               <<5, FloatVector(<<0, 1>>)>> >>, TRUE),
         EmbeddingFile("b", << <<0, FloatVector(<<1, 0>>)>> >>, TRUE) >> }

\* How the extractions end for the three results of a request.
AssetOutcomes ==
    LET Ok == [ thumbnail |-> "ok", preview |-> "ok", video |-> "ok" ]
    IN  { << Ok, Ok, Ok >>,
          << [ Ok EXCEPT !.thumbnail = "false" ], Ok, Ok >>,
          << Ok, [ Ok EXCEPT !.preview = "raise" ], Ok >>,
          << Ok, Ok, [ Ok EXCEPT !.video = "false" ] >>,
          << [ Ok EXCEPT !.thumbnail = "raise" ], [ Ok EXCEPT !.preview = "false" ],
             [ Ok EXCEPT !.video = "raise" ] >> }

\* startup_event: load_embeddings runs once, before any request is accepted.
StartupEvent ==
    /\ ~serving
    /\ Load(StartupFileLists)
    /\ serving' = TRUE
    /\ UNCHANGED requests

\* POST /process: the handler runs to its await or to its response.
ProcessRequest(r) ==
    /\ serving
    /\ requests[r] = None
    /\ \E query \in Vectors, upload \in BOOLEAN, outcomes \in AssetOutcomes :
          \E labels \in IndexLabels(faiss_index, query, process_top_k) :
             LET p == process(faiss_index, frame_mapping, video_mapping,
                              query, labels, outcomes, upload)
             IN  /\ faiss_index' = p.faiss_index
                 /\ frame_mapping' = p.frame_mapping
                 /\ video_mapping' = p.video_mapping
                 /\ requests' = [ requests EXCEPT ![r] =
                                    [ op |-> "process", at |-> p.at,
                                      response |-> p.response ] ]
    /\ UNCHANGED <<vi_index, vi_events, q_pc, q_args, q_ret, serving, detector_vars, run_vars>>

\* await file.read() of process ends: the upload is written and the body is
\* returned, or the read raises and the handler falls back to the mock body.
UploadRead(r) ==
    /\ requests[r] # None
    /\ requests[r].at = "await_file_read"
    /\ \E read_ok \in BOOLEAN :
          requests' = [ requests EXCEPT ![r] =
                          [ op |-> "process", at |-> "responded",
                            response |-> IF read_ok
                                         THEN requests[r].response
                                         ELSE MockResponse("read") ] ]
    /\ UNCHANGED <<index_vars, serving, detector_vars, run_vars>>

\* GET /videos: the names of the pairs find_video_embedding_pairs finds on
\* disk, which holds the files of the startup.
ListVideos(r) ==
    /\ serving
    /\ requests[r] = None
    /\ LET video_pairs == find_video_embedding_pairs(q_args.embedding_files)
       IN  requests' = [ requests EXCEPT ![r] =
                           [ op |-> "list_videos", at |-> "responded",
                             response |-> [ videos |->
                                 [ i \in 1..Len(video_pairs) |->
                                     video_pairs[i].video_name ] ] ] ]
    /\ UNCHANGED <<index_vars, serving, detector_vars, run_vars>>

\* The response of a handler is sent.
Respond(r) ==
    /\ requests[r] # None
    /\ requests[r].at = "responded"
    /\ requests' = [ requests EXCEPT ![r] = None ]
    /\ UNCHANGED <<index_vars, serving, detector_vars, run_vars>>

NextServe ==
    \/ StartupEvent
    \/ \E r \in 1..NumRequests :
          \/ ProcessRequest(r)
          \/ UploadRead(r)
          \/ ListVideos(r)
          \/ Respond(r)

SpecServe == Init /\ [][NextServe]_vars

\* ------------------------------------------------ the searches by metadata
\* Events as the detector and its callers may hand them to add_event, in any
\* order of their frames.
StoredEvents ==
    { [ start_frame |-> f, field_zone |-> z, players_involved |-> p ] :
        f \in 0..1, z \in { "midfield", "final_third" },
        p \in { <<1>>, <<2>>, <<1, 2>> } }

AddStoredEvent ==
    AddEventOf(StoredEvents, { << <<1, 0>> >> })

\* VideoIndexer.search_by_zone(zone, k)
SearchByZone ==
    /\ q_pc = "idle"
    /\ \E zone \in { "defensive_third", "midfield", "final_third" }, k \in 0..MaxK :
          /\ q_args' = [ op |-> "search_by_zone", zone |-> zone, k |-> k ]
          /\ q_ret' = [ status |-> "returned",
                        results |-> search_by_zone(vi_events, zone, k) ]
    /\ q_pc' = "returned"
    /\ UNCHANGED <<faiss_index, frame_mapping, video_mapping, vi_index, vi_events,
                   detector_vars, run_vars, serve_vars>>

\* VideoIndexer.search_by_player(player_id, k)
SearchByPlayer ==
    /\ q_pc = "idle"
    /\ \E player_id \in 1..3, k \in 0..MaxK :
          /\ q_args' = [ op |-> "search_by_player", player_id |-> player_id, k |-> k ]
          /\ q_ret' = [ status |-> "returned",
                        results |-> search_by_player(vi_events, player_id, k) ]
    /\ q_pc' = "returned"
    /\ UNCHANGED <<faiss_index, frame_mapping, video_mapping, vi_index, vi_events,
                   detector_vars, run_vars, serve_vars>>

NextMeta ==
    \/ AddStoredEvent
    \/ SearchByZone
    \/ SearchByPlayer
    \/ QueryDone

SpecMeta == Init /\ [][NextMeta]_vars

\* =================================================================== claims
Returned == pc = "returned" /\ ret.status = "returned"

EventsOfKind(kind) ==
    SelectSeq(ret.events, LAMBDA e : e.kind = kind)

\* Pressure as the specification words it: p has the ball and a position, o
\* is an opponent with a position closer than 2.0 and a speed above 5.0.
PressurePair(p, o) ==
    /\ p.has_ball
    /\ p.position_transformed # None
    /\ o.team # p.team
    /\ o.position_transformed # None
    /\ LET dx == p.position_transformed[1] - o.position_transformed[1]
           dy == p.position_transformed[2] - o.position_transformed[2]
       IN  dx * dx + dy * dy < 2 * 2
    /\ o.speed # None
    /\ o.speed[1] > 5

\* The number of returned Pressure events with p pressured by o.
PressureCount(p, o) ==
    Len(SelectSeq(ret.events,
                  LAMBDA e : /\ e.kind = "PressureEvent"
                             /\ e.pressured_player_id = p.id
                             /\ e.pressuring_player_id = o.id))

\* The possession step ran in the call that returned.
PossessionStepRan == Returned /\ args.team_ball_control # None

\* C1: with a team-control array supplied, the possession step emits exactly
\* one PossessionChangeEvent if and only if an earlier call on the detector
\* stored a team and the frame's team differs from it; the event carries the
\* stored team as previous_team, the frame's team as new_team and
\* start_frame = end_frame = frame_num.  Otherwise it emits none.
C1_PossessionChangeIff ==
    PossessionStepRan =>
        LET current_team == args.team_ball_control[1]
            changes == EventsOfKind("PossessionChangeEvent")
        IN  /\ prior_update <=> stored_before # None
            /\ IF prior_update /\ <<current_team>> # stored_before
               THEN /\ Len(changes) = 1
                    /\ changes[1].previous_team = stored_before[1]
                    /\ changes[1].new_team = current_team
                    /\ changes[1].start_frame = args.frame_num
                    /\ changes[1].end_frame = args.frame_num
               ELSE Len(changes) = 0

\* Team control [1, 1, 2, 2]: the call for frame 2 follows a call that stored
\* team 1 and emits the change 1 -> 2.
C1_Witness ==
    /\ PossessionStepRan
    /\ args.frame_num = 2
    /\ stored_before = <<1>>
    /\ args.team_ball_control = <<2>>
    /\ Len(EventsOfKind("PossessionChangeEvent")) = 1

\* C2 as stated: a possession update made with frame_num = 0, or made while
\* no team is stored, records current_team and emits no event.
C2_FrameZeroNeverEmits ==
    (PossessionStepRan /\ (args.frame_num = 0 \/ stored_before = None)) =>
        /\ Len(EventsOfKind("PossessionChangeEvent")) = 0
        /\ last_possession_team = args.team_ball_control

\* C2 amended: a possession update made while no team is stored records
\* current_team and emits no event, and the first update on a detector (one
\* per run of main) is such an update, whatever its frame number.
C2_NoStoredTeamNeverEmits ==
    (PossessionStepRan /\ (stored_before = None \/ ~prior_update)) =>
        /\ stored_before = None
        /\ Len(EventsOfKind("PossessionChangeEvent")) = 0
        /\ last_possession_team = args.team_ball_control

C2_Witness ==
    /\ PossessionStepRan
    /\ args.frame_num = 0
    /\ ~prior_update
    /\ last_possession_team = <<2>>

\* The precondition of C3 on the frame of the call that returned.
PassExpected ==
    /\ Returned
    /\ args.player_ball_control # None
    /\ args.frame_num > 0
    /\ args.player_ball_control[2] # args.player_ball_control[1]
    /\ \E i, j \in 1..Len(args.players) :
          /\ args.players[i].id = args.player_ball_control[1]
          /\ args.players[j].id = args.player_ball_control[2]
          /\ args.players[i].team = args.players[j].team

\* C3: at a frame f > 0 where the controlling player changed, both
\* controllers are tracked in frame f and are on the same team, detect_events
\* emits exactly one PassEvent, from f-1 to f, from the old controller to the
\* new one, with confidence 0.95, pass_type "pass" and pass_success true.
C3_ExactlyOnePass ==
    PassExpected =>
        LET passes == EventsOfKind("PassEvent")
        IN  /\ Len(passes) = 1
            /\ passes[1].start_frame = args.frame_num - 1
            /\ passes[1].end_frame = args.frame_num
            /\ passes[1].passer_id = args.player_ball_control[1]
            /\ passes[1].receiver_id = args.player_ball_control[2]
            /\ passes[1].confidence = 95
            /\ passes[1].pass_type = "pass"
            /\ passes[1].pass_success = TRUE

\* Player control [A, A, B, B]: Pass(start = 1, end = 2, A -> B) at frame 2.
C3_Witness ==
    /\ PassExpected
    /\ args.frame_num = 2
    /\ args.player_ball_control = <<1, 2>>
    /\ Len(EventsOfKind("PassEvent")) = 1

\* C4: at frame 0, when the controller is unchanged, when a controller id
\* (-1 included) is not tracked in the frame, or when the two controllers are
\* on different teams, the call returns without a PassEvent, and pressure
\* detection and the possession update of the frame still take place.
C4_PassSkipped ==
    (/\ pc = "returned"
     /\ args.frame_num < NumFrames
     /\ ~PassExpected) =>
        /\ ret.status = "returned"
        /\ Len(EventsOfKind("PassEvent")) = 0
        /\ \A i, j \in 1..Len(args.players) :
              PressurePair(args.players[i], args.players[j])
              => PressureCount(args.players[i], args.players[j]) = 1
        /\ args.team_ball_control # None
              => last_possession_team = args.team_ball_control

\* A controller that is not tracked in the frame, with a pressure event and
\* a possession change in the same call.
C4_Witness ==
    /\ Returned
    /\ args.frame_num > 0
    /\ args.player_ball_control = <<-1, 2>>
    /\ Len(EventsOfKind("PassEvent")) = 0
    /\ Len(EventsOfKind("PressureEvent")) = 1
    /\ Len(EventsOfKind("PossessionChangeEvent")) = 1

KindRank(e) ==
    CASE e.kind = "PassEvent" -> 1
      [] e.kind = "PressureEvent" -> 2
      [] e.kind = "PossessionChangeEvent" -> 3

\* C7: in the returned list the Pass events come first, then the Pressure
\* events, then the PossessionChange event, of which there is at most one.
C7_FixedOrder ==
    Returned =>
        /\ \A i, j \in 1..Len(ret.events) :
              i < j => KindRank(ret.events[i]) <= KindRank(ret.events[j])
        /\ Len(EventsOfKind("PossessionChangeEvent")) <= 1

C7_Witness ==
    /\ Returned
    /\ Len(ret.events) = 3
    /\ ret.events[1].kind = "PassEvent"
    /\ ret.events[2].kind = "PressureEvent"
    /\ ret.events[3].kind = "PossessionChangeEvent"

\* C8: detect_events never raises, and when the frame has no inputs (no
\* control arrays, no tracked player) the returned list is empty.
C8_NeverRaises ==
    pc = "returned" =>
        /\ ret.status = "returned"
        /\ (/\ args.team_ball_control = None
            /\ args.player_ball_control = None
            /\ args.players = <<>>) => ret.events = <<>>

\* C9: every Pass event, and every PossessionChange event emitted when
\* neither the possessing player nor the ball track has a position, has
\* field_zone "midfield".
C9_UnresolvedIsMidfield ==
    Returned =>
        \A k \in 1..Len(ret.events) :
            (\/ ret.events[k].kind = "PassEvent"
             \/ /\ ret.events[k].kind = "PossessionChangeEvent"
                /\ BallPos(args.players, args.ball) = None)
            => ret.events[k].field_zone = "midfield"

\* C5 as stated: every emitted PressureEvent has 0 <= pressure_intensity < 1.
C5_IntensityBelowOne ==
    Returned =>
        \A k \in 1..Len(ret.events) :
            ret.events[k].kind = "PressureEvent" =>
                /\ 0 <= ret.events[k].pressure_intensity[1]
                /\ ret.events[k].pressure_intensity[1]
                       < ret.events[k].pressure_intensity[2]

\* C5 amended: every emitted PressureEvent has 0 < pressure_intensity <= 1,
\* and the intensity is 1 exactly when the two players are at distance 0.
C5_IntensityPositiveAtMostOne ==
    Returned =>
        \A k \in 1..Len(ret.events) :
            ret.events[k].kind = "PressureEvent" =>
                LET e == ret.events[k]
                    p == Player(args.players, e.pressured_player_id)
                    o == Player(args.players, e.pressuring_player_id)
                IN  /\ e.pressure_intensity[2] > 0
                    /\ 0 < e.pressure_intensity[1]
                    /\ e.pressure_intensity[1] <= e.pressure_intensity[2]
                    /\ (e.pressure_intensity[1] = e.pressure_intensity[2])
                          <=> (p.position_transformed = o.position_transformed)

\* Two opponents on the same spot: intensity 1.
C5_Witness ==
    /\ Returned
    /\ \E k \in 1..Len(ret.events) :
          /\ ret.events[k].kind = "PressureEvent"
          /\ ret.events[k].pressure_intensity = <<2, 2>>

\* C6: pressure detection emits exactly one PressureEvent for each ordered
\* pair (p, o) where p has the ball and a position and o is an opponent with
\* a position, closer than the proximity threshold and faster than the speed
\* threshold, and none for any other pair; each event names p as pressured
\* and o as pressuring, two distinct players of different teams, and has
\* start_frame = end_frame = frame_num.
C6_OnePressurePerPair ==
    Returned =>
        /\ \A i, j \in 1..Len(args.players) :
              PressureCount(args.players[i], args.players[j])
                 = IF PressurePair(args.players[i], args.players[j]) THEN 1 ELSE 0
        /\ \A k \in 1..Len(ret.events) :
              ret.events[k].kind = "PressureEvent" =>
                 /\ ret.events[k].start_frame = args.frame_num
                 /\ ret.events[k].end_frame = args.frame_num
                 /\ ret.events[k].pressured_player_id # ret.events[k].pressuring_player_id
                 /\ \E i, j \in 1..Len(args.players) :
                       /\ args.players[i].id = ret.events[k].pressured_player_id
                       /\ args.players[j].id = ret.events[k].pressuring_player_id
                       /\ args.players[i].team # args.players[j].team

\* Two players who both have the ball press each other: two events; and a
\* frame with a player without a position yields none and does not raise.
C6_Witness ==
    /\ Returned
    /\ Len(EventsOfKind("PressureEvent")) = 2
    /\ args.frame_num = 1

\* A k-nearest-neighbour query has returned or raised.
VectorQueryDone ==
    /\ q_pc = "returned"
    /\ q_args.op \in { "search_similar_frames", "VideoIndexer.search" }

\* The number of vectors in the index the query that returned was put to.
QueriedIndexSize ==
    IF q_args.op = "search_similar_frames"
    THEN (IF faiss_index = None THEN 0 ELSE Len(faiss_index[1]))
    ELSE Len(vi_index)

\* C10: a k-nearest-neighbour query against an index of n >= 1 vectors
\* returns exactly min(k, n) results, for every k >= 1, k > n included.
C10_MinKResults ==
    (VectorQueryDone /\ QueriedIndexSize >= 1) =>
        /\ q_ret.status = "returned"
        /\ Len(q_ret.results)
              = IF q_args.k < QueriedIndexSize THEN q_args.k ELSE QueriedIndexSize

\* The global id of a result of search_similar_frames: the key of
\* frame_mapping whose record the result was built from.
ResultId(r) ==
    CHOOSE id \in DOMAIN frame_mapping[1] :
        /\ frame_mapping[1][id].video_name = r.video_name
        /\ frame_mapping[1][id].frame_number = r.frame_number

SearchReturned ==
    /\ q_pc = "returned"
    /\ q_args.op = "search_similar_frames"
    /\ q_ret.status = "returned"

\* C11: the results of a k-nearest-neighbour query are ordered by
\* non-increasing similarity, results of equal similarity appear in ascending
\* global id order, and the rank of each result is its 1-based position.
C11_OrderedTiesById ==
    SearchReturned =>
        /\ \A i \in 1..Len(q_ret.results) : q_ret.results[i].rank = i
        /\ \A i, j \in 1..Len(q_ret.results) :
              i < j =>
                /\ RatLeq(q_ret.results[j].similarity, q_ret.results[i].similarity)
                /\ RatLeq(q_ret.results[i].similarity, q_ret.results[j].similarity)
                      => ResultId(q_ret.results[i]) < ResultId(q_ret.results[j])

MatchingPositions ==
    { i \in 1..Len(vi_events) :
        IF q_args.op = "search_by_zone"
        THEN vi_events[i].field_zone = q_args.zone
        ELSE \E p \in 1..Len(vi_events[i].players_involved) :
                 vi_events[i].players_involved[p] = q_args.player_id }

\* Stored event j comes before stored event i: by start_frame, then by
\* insertion.
ComesBefore(j, i) ==
    \/ vi_events[j].start_frame < vi_events[i].start_frame
    \/ /\ vi_events[j].start_frame = vi_events[i].start_frame
       /\ j < i

\* The place stored event i takes among the matching events.
PlaceAmongMatching(i) ==
    Cardinality({ j \in MatchingPositions : ComesBefore(j, i) }) + 1

MetadataQueryReturned ==
    /\ q_pc = "returned"
    /\ q_args.op \in { "search_by_zone", "search_by_player" }

\* C13: search_by_zone and search_by_player return exactly the stored events
\* that match, by ascending start_frame with equal start_frames in insertion
\* order, cut to the first k.
C13_MetadataSearchExact ==
    MetadataQueryReturned =>
        /\ Len(q_ret.results)
              = IF q_args.k < Cardinality(MatchingPositions)
                THEN q_args.k ELSE Cardinality(MatchingPositions)
        /\ \A i \in MatchingPositions :
              PlaceAmongMatching(i) <= q_args.k =>
                  q_ret.results[PlaceAmongMatching(i)] = vi_events[i]

\* Two stored events involve the player, the one added second starts
\* earlier, and the query with k = 1 returned that one only.
C13_Witness ==
    /\ MetadataQueryReturned
    /\ q_args.op = "search_by_player"
    /\ q_args.k = 1
    /\ Cardinality(MatchingPositions) = 2
    /\ vi_events[2].start_frame < vi_events[1].start_frame
    /\ q_ret.results = << vi_events[2] >>

\* A call of load_embeddings has returned.
BuildReturned ==
    /\ q_pc = "returned"
    /\ q_args.op = "load_embeddings"

\* The embedding files of that call whose video exists, in discovery order.
BuiltFiles ==
    SelectSeq(q_args.embedding_files, LAMBDA f : f.video_exists)

\* The number of vectors in the first n of them.
RECURSIVE VectorsUpTo(_)
VectorsUpTo(n) ==
    IF n = 0 THEN 0 ELSE VectorsUpTo(n - 1) + Len(BuiltFiles[n].embeddings)

\* C14: a successful build over matched pairs with n1, n2, ... vectors gives
\* an index of n1 + n2 + ... entries, frame_mapping has exactly the keys
\* 0 .. total-1, and the ids of the i-th pair are the contiguous range that
\* follows the ids of the pairs before it.
C14_ContiguousGlobalIds ==
    (BuildReturned /\ q_ret.result) =>
        LET total == VectorsUpTo(Len(BuiltFiles))
        IN  /\ Len(faiss_index[1]) = total
            /\ DOMAIN frame_mapping[1] = 0..(total - 1)
            /\ \A i \in 1..Len(BuiltFiles) : \A id \in 0..(total - 1) :
                  (VectorsUpTo(i - 1) <= id /\ id < VectorsUpTo(i))
                     <=> frame_mapping[1][id].video_name = BuiltFiles[i].video_name

\* Two bundles of two vectors each were merged into ids 0..3.
C14_Witness ==
    /\ BuildReturned
    /\ q_ret.result
    /\ Len(BuiltFiles) = 2
    /\ Len(BuiltFiles[1].embeddings) = 2
    /\ Len(BuiltFiles[2].embeddings) = 2
    /\ DOMAIN frame_mapping[1] = 0..3

\* C15: within a video the vectors are inserted by ascending frame number,
\* so of two global ids of one video the smaller has the smaller
\* frame_number; and the record of a global id is the (video_name,
\* frame_number, video_path) of the vector stored at that id.
C15_FrameNumberOrder ==
    (BuildReturned /\ q_ret.result) =>
        /\ \A g1, g2 \in DOMAIN frame_mapping[1] :
              (g1 < g2 /\ frame_mapping[1][g1].video_name = frame_mapping[1][g2].video_name)
                 => frame_mapping[1][g1].frame_number < frame_mapping[1][g2].frame_number
        /\ \A i \in 1..Len(BuiltFiles) : \A n \in 1..Len(BuiltFiles[i].embeddings) :
              LET id == VectorsUpTo(i - 1) + n - 1
              IN  /\ frame_mapping[1][id].video_name = BuiltFiles[i].video_name
                  /\ frame_mapping[1][id].frame_number = BuiltFiles[i].embeddings[n][1]

\* C17: the build replaces every NaN component by 0, every +Inf by 1 and
\* every -Inf by -1, leaves every finite component as it is, and drops no
\* vector: the stored vector at each id is the loaded vector so sanitized.
C17_SanitizedComponents ==
    (BuildReturned /\ q_ret.result) =>
        /\ Len(faiss_index[1]) = VectorsUpTo(Len(BuiltFiles))
        /\ \A i \in 1..Len(BuiltFiles) : \A n \in 1..Len(BuiltFiles[i].embeddings) :
              \A j \in 1..2 :
                 LET loaded == BuiltFiles[i].embeddings[n][2][j]
                     stored == faiss_index[1][VectorsUpTo(i - 1) + n][j]
                 IN  /\ loaded.cls = "nan" => stored = 0
                     /\ loaded.cls = "posinf" => stored = 1
                     /\ loaded.cls = "neginf" => stored = -1
                     /\ loaded.cls = "finite" => stored = loaded.val

\* A build over a bundle holding NaN, +Inf, -Inf and a finite component.
C17_Witness ==
    /\ BuildReturned
    /\ q_ret.result
    /\ \E i \in 1..Len(BuiltFiles) :
          \A c \in { "nan", "posinf", "neginf", "finite" } :
             \E n \in 1..Len(BuiltFiles[i].embeddings) : \E j \in 1..2 :
                BuiltFiles[i].embeddings[n][2][j].cls = c

\* C18: an embedding file without its video is passed over and the build
\* goes on: it gets no frame_mapping entry and no video_mapping entry, every
\* file with its video gets one entry per vector, and the build succeeds
\* when one of those holds a vector.
C18_MissingVideoSkipped ==
    (BuildReturned /\ BuiltFiles # <<>>) =>
        /\ \A i \in 1..Len(q_args.embedding_files) :
              LET f == q_args.embedding_files[i]
                  ids == { id \in DOMAIN frame_mapping[1] :
                             frame_mapping[1][id].video_name = f.video_name }
              IN  IF f.video_exists
                  THEN /\ Cardinality(ids) = Len(f.embeddings)
                       /\ f.video_name \in video_mapping[1]
                  ELSE /\ ids = {}
                       /\ f.video_name \notin video_mapping[1]
        /\ q_ret.result <=> \E i \in 1..Len(BuiltFiles) : BuiltFiles[i].embeddings # <<>>
        /\ q_ret.result => Len(faiss_index[1]) = VectorsUpTo(Len(BuiltFiles))

\* The first embedding file has no video, the second has one and was indexed.
C18_Witness ==
    /\ BuildReturned
    /\ Len(q_args.embedding_files) = 2
    /\ ~q_args.embedding_files[1].video_exists
    /\ q_args.embedding_files[1].embeddings # <<>>
    /\ q_args.embedding_files[2].video_exists
    /\ q_ret.result
    /\ Len(faiss_index[1]) = Len(q_args.embedding_files[2].embeddings)

\* The ids under which the queried index stores the query vector itself.
IdsOfQueryVector ==
    IF q_args.op = "search_similar_frames"
    THEN (IF faiss_index = None
          THEN {}
          ELSE { id \in 0..(Len(faiss_index[1]) - 1) :
                   faiss_index[1][id + 1] = q_args.query })
    ELSE { id \in 0..(Len(vi_index) - 1) : vi_index[id + 1] = q_args.query }

\* C20: after a non-zero vector V was inserted under an id, a query with V
\* returns that id at rank 1 with similarity 1, whatever else is stored.
C20_SelfMatch ==
    VectorQueryDone =>
        \A id \in IdsOfQueryVector :
            /\ q_ret.status = "returned"
            /\ Len(q_ret.results) >= 1
            /\ IF q_args.op = "search_similar_frames"
               THEN /\ ResultId(q_ret.results[1]) = id
                    /\ q_ret.results[1].similarity[1] = q_ret.results[1].similarity[2]
               ELSE q_ret.results[1].similarity_score = << 1, 1 >>

\* The requests whose /process handler holds the body of a search that
\* returned.
AnsweredRequests ==
    { r \in 1..NumRequests :
        /\ requests[r] # None
        /\ requests[r].op = "process"
        /\ requests[r].response.error = None }

\* C16: whatever fails for an item, generate_video_assets leaves one entry
\* per search result in each of thumbnails, previews and videos, and entry i
\* is the file of search result i or the empty placeholder.
C16_OneSlotPerResult ==
    \A r \in AnsweredRequests :
        LET body == requests[r].response
            n == Len(body.search_results)
        IN  /\ Len(body.thumbnails) = n
            /\ Len(body.previews) = n
            /\ Len(body.videos) = n
            /\ \A i \in 1..n :
                  /\ body.thumbnails[i] \in
                        { EmptyPlaceholder,
                          <<body.search_results[i].video_name, "thumbnail", i>> }
                  /\ body.previews[i] \in
                        { EmptyPlaceholder,
                          <<body.search_results[i].video_name, "preview", i>> }
                  /\ body.videos[i] \in
                        { EmptyPlaceholder,
                          <<body.search_results[i].video_name, "video", i>> }

\* C19: once startup_event has built the index, no step of a request
\* handler, in any interleaving of the requests in flight, changes
\* faiss_index, frame_mapping or video_mapping.
C19_IndexFrozen ==
    [][serving => UNCHANGED <<faiss_index, frame_mapping, video_mapping>>]_vars

\* Two requests in flight over a built index: one suspended at its await,
\* the other with the body of a search that returned.
C19_Witness ==
    /\ serving
    /\ faiss_index # None
    /\ requests[1] # None
    /\ requests[1].at = "await_file_read"
    /\ 2 \in AnsweredRequests
    /\ requests[2].at = "responded"

\* C21: after a possession update returns, the stored team is the
\* current_team of that call, with or without an event, and an emitted event
\* names the team stored before the overwrite as previous_team; a call in
\* which only the pass and pressure steps ran, or which raised, leaves the
\* stored team as it was.
C21_StoredTeamOverwritten ==
    pc = "returned" =>
        IF PossessionStepRan
        THEN /\ last_possession_team = args.team_ball_control
             /\ \A k \in 1..Len(ret.events) :
                    ret.events[k].kind = "PossessionChangeEvent" =>
                        /\ stored_before # None
                        /\ ret.events[k].previous_team = stored_before[1]
                        /\ ret.events[k].previous_team # last_possession_team[1]
        ELSE last_possession_team = stored_before

\* A call that emits a pass and the change 1 -> 2 and stores team 2.
C21_Witness ==
    /\ PossessionStepRan
    /\ stored_before = <<1>>
    /\ last_possession_team = <<2>>
    /\ Len(EventsOfKind("PassEvent")) = 1
    /\ Len(EventsOfKind("PossessionChangeEvent")) = 1

\* C22: a PossessionChangeEvent of frame f takes its position from the first
\* player of the frame that has the ball, if that player has a position;
\* otherwise from the ball track entry of the frame, if there is one with a
\* position; otherwise it has no position and field_zone is "midfield".  Its
\* cause is "interception".
C22_PositionPreference ==
    Returned =>
        \A k \in 1..Len(ret.events) :
            ret.events[k].kind = "PossessionChangeEvent" =>
                LET players == args.players
                    holders == { i \in 1..Len(players) : players[i].has_ball }
                    first == CHOOSE i \in holders : \A j \in holders : i <= j
                    from_player == IF holders # {}
                                   THEN players[first].position_transformed
                                   ELSE None
                    from_ball == IF args.ball # <<>>
                                 THEN args.ball[1].position_transformed
                                 ELSE None
                    resolved == IF from_player # None THEN from_player ELSE from_ball
                IN  /\ ret.events[k].cause = "interception"
                    /\ IF resolved # None
                       THEN /\ ret.events[k].field_position = resolved
                            /\ ret.events[k].field_zone = _get_field_zone(resolved)
                       ELSE ret.events[k].field_zone = "midfield"

\* A change reported while the player with the ball has a position and the
\* ball track has another one: the player's position is taken.
C22_Witness ==
    /\ Returned
    /\ Len(EventsOfKind("PossessionChangeEvent")) = 1
    /\ args.ball # <<>>
    /\ args.ball[1].position_transformed = <<10, 0>>
    /\ HolderPosition(args.players) = <<20, 0>>
    /\ EventsOfKind("PossessionChangeEvent")[1].field_zone = "final_third"

\* C23: every event detect_events returns for frame_num has end_frame >=
\* start_frame: a Pass event has end_frame = start_frame + 1 = frame_num, a
\* Pressure or PossessionChange event has start_frame = end_frame = frame_num.
C23_FramesOrdered ==
    Returned =>
        \A k \in 1..Len(ret.events) :
            LET e == ret.events[k]
            IN  /\ e.end_frame >= e.start_frame
                /\ IF e.kind = "PassEvent"
                   THEN e.end_frame = args.frame_num
                        /\ e.end_frame = e.start_frame + 1
                        /\ e.start_frame >= 0
                   ELSE e.start_frame = args.frame_num
                        /\ e.end_frame = args.frame_num

\* The last frame of the video returns a pass, a pressure and a change.
C23_Witness ==
    /\ Returned
    /\ args.frame_num = NumFrames - 1
    /\ Len(EventsOfKind("PassEvent")) = 1
    /\ Len(EventsOfKind("PressureEvent")) >= 1
    /\ Len(EventsOfKind("PossessionChangeEvent")) = 1

\* The PossessionChange events main collected for frame f.
ChangesOfFrame(f) ==
    SelectSeq(all_events[f + 1], LAMBDA e : e.kind = "PossessionChangeEvent")

\* C24: when one detector processes the frames 0, 1, 2, ... in order with
\* the team-control array supplied on every call, frame f gets a
\* PossessionChangeEvent if and only if f > 0 and team_ball_control[f] #
\* team_ball_control[f-1]; the event has previous_team =
\* team_ball_control[f-1] and new_team = team_ball_control[f].
C24_AdjacentEntries ==
    \A f \in 0..(Len(all_events) - 1) :
        LET team == control.team_ball_control
        IN  IF f > 0 /\ team[f + 1] # team[f]
            THEN /\ Len(ChangesOfFrame(f)) = 1
                 /\ ChangesOfFrame(f)[1].previous_team = team[f]
                 /\ ChangesOfFrame(f)[1].new_team = team[f + 1]
                 /\ ChangesOfFrame(f)[1].start_frame = f
            ELSE Len(ChangesOfFrame(f)) = 0

\* Every frame is processed; the team changes at the last frame, not before.
C24_Witness ==
    /\ run_pc = "draw"
    /\ Len(all_events) = NumFrames
    /\ control.team_ball_control[1] = 2
    /\ control.team_ball_control[NumFrames - 1] = 2
    /\ control.team_ball_control[NumFrames] = 1
    /\ Len(ChangesOfFrame(NumFrames - 1)) = 1
    /\ Len(ChangesOfFrame(0)) = 0

\* C25: after any sequence of add_event calls, with events of one frame or
\* more, the index of the VideoIndexer holds as many vectors as self.events
\* holds events, so that position i of the index belongs to self.events[i].
C25_OneVectorPerEvent ==
    Len(vi_index) = Len(vi_events)

\* C26: in every state reached by load_embeddings calls, an index that is
\* not None and frame_mapping describe one build: frame_mapping has an entry
\* for exactly the ids 0 .. ntotal-1 of faiss_index.
C26_IndexAndMappingAgree ==
    faiss_index # None =>
        /\ frame_mapping # None
        /\ DOMAIN frame_mapping[1] = 0..(Len(faiss_index[1]) - 1)

SyncReturned ==
    /\ q_pc = "returned"
    /\ q_args.op = "sync_captions"

\* How often caption c occurs in a list of entries with a caption field.
TimesGiven(entries, c) ==
    Cardinality({ i \in 1..Len(entries) : entries[i].caption = c })

\* How often caption c occurs in the lists of the returned mapping.
TimesReturned(synced, c) ==
    Cardinality({ p \in (1..Len(synced)) \X (1..4) :
                    /\ p[2] <= Len(synced[p[1]][2])
                    /\ synced[p[1]][2][p[2]] = c })

\* C27: sync_captions loses and duplicates no caption: every caption occurs
\* in the returned mapping as often as it occurs in yolo_data and blip_data
\* together.
C27_NoCaptionLost ==
    SyncReturned =>
        \A c \in {"pass", "pressure", "save", "shot"} :
            TimesReturned(q_ret.result, c)
                = TimesGiven(q_args.yolo_data, c) + TimesGiven(q_args.blip_data, c)

\* C28: the field_zone of every PossessionChangeEvent is the zone
\* _get_field_zone gives for the event's own field_position, also when no
\* position was resolved and field_position has its default value.
C28_ZoneOfOwnPosition ==
    Returned =>
        \A k \in 1..Len(ret.events) :
            ret.events[k].kind = "PossessionChangeEvent" =>
                ret.events[k].field_zone = _get_field_zone(ret.events[k].field_position)

\* The Pass events main collected for frame f.
PassesOfFrame(f) ==
    SelectSeq(all_events[f + 1], LAMBDA e : e.kind = "PassEvent")

\* C29: when draw_events is called for the frames in increasing order with
\* the events the detector returned for them, every active pass has
\* end_frame > start_frame, so the progress is computed without a division
\* by zero; every pass kept from an earlier call has end_frame >= frame_num;
\* a pass detected at frame f is drawn at frame f, and a pass of an earlier
\* frame is no longer active.
C29_ActivePasses ==
    draw_ret # None =>
        /\ draw_ret.status = "returned"
        /\ \A i \in 1..Len(active_pass_events) :
              /\ active_pass_events[i].end_frame > active_pass_events[i].start_frame
              /\ active_pass_events[i].end_frame = draw_ret.frame_num
        /\ \A i \in 1..Len(draw_ret.kept) :
              draw_ret.kept[i].end_frame >= draw_ret.frame_num
        /\ active_pass_events = draw_ret.kept \o PassesOfFrame(draw_ret.frame_num)
        /\ \A i \in 1..Len(PassesOfFrame(draw_ret.frame_num)) :
              \E j \in 1..Len(draw_ret.drawn) :
                  draw_ret.drawn[j] = PassesOfFrame(draw_ret.frame_num)[i]

\* Passes were detected at frame 1 and at frame 2; at frame 2 the pass of
\* frame 1 is gone and the pass of frame 2 is drawn.
C29_Witness ==
    /\ draw_ret # None
    /\ draw_ret.frame_num = 2
    /\ Len(PassesOfFrame(1)) = 1
    /\ Len(PassesOfFrame(2)) = 1
    /\ Len(draw_ret.drawn) = 1
    /\ draw_ret.drawn[1].start_frame = 1
    /\ Len(active_pass_events) = 1

====
